---- MODULE Spec2Model ----
(***************************************************************************)
(* Model of package box: the generic wrappers Optional[T] and Nullable[T], *)
(* the JSON delegate (marshalJSON / unmarshalJSON), the database adapters  *)
(* (Scan) and the two-level Optional2[T].                                   *)
(*                                                                         *)
(* The type parameter T is a descriptor of what the code can observe of a  *)
(* type: which hook interfaces its method sets satisfy, and how its own    *)
(* encoders and decoders behave.  Values of T are small integers, Zero is  *)
(* T's zero value.  Byte strings are records [fmt, val]: fmt says which    *)
(* encoder's output the bytes are ("json" custom hook, "text" text hook,   *)
(* "struct" reflective encoding), "null" is the literal null, "bad" is a   *)
(* byte string no decoder accepts.  Whether a hook's bytes are well-formed *)
(* JSON is not modelled.                                                   *)
(*                                                                         *)
(* optional.go holds two revisions of the file one after the other; the    *)
(* model follows the later one (from the second package clause on), which  *)
(* is the one that calls marshalJSON and unmarshalJSON.                     *)
(***************************************************************************)
EXTENDS Integers, FiniteSets, Sequences, TLC

\* ------------------------------------------------------------------ bounds
\* Values of T are 0..MaxVal.
MaxVal == 1
\* Depth at which the runtime aborts a goroutine whose stack keeps growing.
MaxStackDepth == 3

\* ------------------------------------------------------------- value space
Vals == 0..MaxVal
\* The zero value of T (Optional[T]{} and Nullable[T]{} hold it).
Zero == 0

nil == "nil"
errJSONHook == "error from T's MarshalJSON/UnmarshalJSON"
errTextHook == "error from T's MarshalText/UnmarshalText"
errStruct == "error from json.Marshal/json.Unmarshal"
errConvert == "error from sql convertAssign"

B(f, x) == [fmt |-> f, val |-> x]
\* var nullStrBytes = []byte("null")
nullStrBytes == B("null", Zero)
Bad == B("bad", Zero)
NoBytes == B("none", Zero)
Omitted == B("omitted", Zero)
Missing == B("missing", Zero)
Bytes == {nullStrBytes, Bad} \cup {B(f, x) : f \in {"json", "text", "struct"}, x \in Vals}

\* Storage values handed to Scan: the NULL marker, a value convertible to T,
\* a value that is not convertible to T.
SrcNil == B("sqlnil", Zero)
SrcBad == B("sqlbad", Zero)
Srcs == {SrcNil, SrcBad} \cup {B("sqlval", x) : x \in Vals}

\* What the code can observe of a type T:
\*   mj        T's method set holds MarshalJSON    (any(v).(json.Marshaler))
\*   uj        *T's method set holds UnmarshalJSON (any(ptr).(json.Unmarshaler))
\*   mt, ut    the same for encoding.TextMarshaler / TextUnmarshaler
\*   nilable   T is a pointer, slice, map or interface: its zero value is nil,
\*             which json.Marshal writes as null and json.Unmarshal reads back
\*   nullAware T's decode hooks treat the literal null as a no-op
\*   partial   T has a value (MaxVal) that none of its encoders can encode
Types ==
    [mj : BOOLEAN, uj : BOOLEAN, mt : BOOLEAN, ut : BOOLEAN,
     nilable : BOOLEAN, nullAware : BOOLEAN, partial : BOOLEAN]

VARIABLES T, opt, nul, form, res
vars == <<T, opt, nul, form, res>>

\* ------------------------------------------------ the targets of the delegate
\* Every target's result says, in "by", which target ran.
\* casted.MarshalJSON() of T
T_MarshalJSON(t, v) ==
    IF t.partial /\ v = MaxVal
    THEN [out |-> NoBytes, err |-> errJSONHook, by |-> "json"]
    ELSE [out |-> B("json", v), err |-> nil, by |-> "json"]

\* casted.MarshalText() of T
T_MarshalText(t, v) ==
    IF t.partial /\ v = MaxVal
    THEN [out |-> NoBytes, err |-> errTextHook, by |-> "text"]
    ELSE [out |-> B("text", v), err |-> nil, by |-> "text"]

\* json.Marshal(v) reached with no hook in T's method set: reflective encoding
json_Marshal(t, v) ==
    IF t.partial /\ v = MaxVal
    THEN [out |-> NoBytes, err |-> errStruct, by |-> "struct"]
    ELSE IF t.nilable /\ v = Zero
         THEN [out |-> nullStrBytes, err |-> nil, by |-> "struct"]
         ELSE [out |-> B("struct", v), err |-> nil, by |-> "struct"]

\* casted.UnmarshalJSON(data) of *T; cur is the value ptr points at.  A hook
\* accepts the bytes its own encoder writes; one that fails leaves *ptr alone.
T_UnmarshalJSON(t, data, cur) ==
    IF data.fmt = "json" THEN [v |-> data.val, err |-> nil, by |-> "json"]
    ELSE IF data = nullStrBytes /\ t.nullAware THEN [v |-> cur, err |-> nil, by |-> "json"]
    ELSE [v |-> cur, err |-> errJSONHook, by |-> "json"]

\* casted.UnmarshalText(data) of *T
T_UnmarshalText(t, data, cur) ==
    IF data.fmt = "text" THEN [v |-> data.val, err |-> nil, by |-> "text"]
    ELSE IF data = nullStrBytes /\ t.nullAware THEN [v |-> cur, err |-> nil, by |-> "text"]
    ELSE [v |-> cur, err |-> errTextHook, by |-> "text"]

\* json.Unmarshal(data, ptr) reached with no hook in *T's method set: null is
\* a no-op for a non-nilable T and stores nil in a nilable one (whose nil is
\* written as null, never as "struct" bytes); a syntax or type error leaves
\* *ptr as it was
json_Unmarshal(t, data, cur) ==
    IF data = nullStrBytes
    THEN [v |-> IF t.nilable THEN Zero ELSE cur, err |-> nil, by |-> "struct"]
    ELSE IF data.fmt = "struct" /\ ~(t.nilable /\ data.val = Zero)
         THEN [v |-> data.val, err |-> nil, by |-> "struct"]
         ELSE [v |-> cur, err |-> errStruct, by |-> "struct"]

\* ----------------------------------------------------------- the delegate
marshalJSON_TextFirst(t, v) ==
    IF t.mt THEN T_MarshalText(t, v)
    ELSE IF t.mj THEN T_MarshalJSON(t, v)
    ELSE json_Marshal(t, v)

marshalJSON(t, v) ==
    IF t.mj THEN T_MarshalJSON(t, v)
    ELSE IF t.mt THEN T_MarshalText(t, v)
    ELSE json_Marshal(t, v)

unmarshalJSON(t, data, cur) ==
    IF t.uj THEN T_UnmarshalJSON(t, data, cur)
    ELSE IF t.ut THEN T_UnmarshalText(t, data, cur)
    ELSE json_Unmarshal(t, data, cur)

\* --------------------------------------------------------------- Optional
Optional == [some : BOOLEAN, v : Vals]
Nullable == [valid : BOOLEAN, v : Vals]

Some(val) == [some |-> TRUE, v |-> val]
None == [some |-> FALSE, v |-> Zero]
IsSome(o) == o.some
IsNone(o) == ~o.some

Optional_Get_Unchecked(o) == [val |-> o.v, fault |-> "none"]

Optional_Get(o) ==
    IF ~o.some
    THEN [val |-> Zero, fault |-> "panic"]
    ELSE [val |-> o.v, fault |-> "none"]

ToNullable(o) == [valid |-> o.some, v |-> o.v]

\* sql.Null[T].Scan(value) on a zero sql.Null[T]
sqlNull_Scan(src) ==
    IF src = SrcNil THEN [Valid |-> FALSE, V |-> Zero, err |-> nil]
    ELSE IF src.fmt = "sqlval" THEN [Valid |-> TRUE, V |-> src.val, err |-> nil]
    ELSE [Valid |-> TRUE, V |-> Zero, err |-> errConvert]

Optional_Scan(o, src) ==
    LET n == sqlNull_Scan(src) IN
    IF n.err # nil
    THEN [recv |-> o, err |-> n.err, fault |-> "none"]
    ELSE [recv |-> [some |-> n.Valid, v |-> n.V], err |-> nil, fault |-> "none"]

Optional_IsZero(o) == ~o.some

Optional_MarshalJSON(t, o) ==
    IF ~o.some
    THEN [out |-> NoBytes, err |-> nil, fault |-> "panic", by |-> "none"]
    ELSE LET r == marshalJSON(t, o.v) IN
         [out |-> r.out, err |-> r.err, fault |-> "none", by |-> r.by]

Optional_UnmarshalJSON_NeverSome(t, o, data) ==
    LET r == unmarshalJSON(t, data, o.v) IN
    [recv |-> [some |-> FALSE, v |-> r.v], err |-> nil, by |-> r.by]

Optional_UnmarshalJSON(t, o, data) ==
    LET r == unmarshalJSON(t, data, o.v) IN
    [recv |-> [some |-> (r.err = nil), v |-> r.v], err |-> nil, by |-> r.by]

\* Go's == on two Optional[T]: field by field
Optional_Eq(a, b) == a.some = b.some /\ a.v = b.v

\* --------------------------------------------------------------- Nullable
Valid(val) == [valid |-> TRUE, v |-> val]
Null == [valid |-> FALSE, v |-> Zero]
IsValid(n) == n.valid
IsNull(n) == ~n.valid

Nullable_Get(n) ==
    IF ~n.valid
    THEN [val |-> Zero, fault |-> "panic"]
    ELSE [val |-> n.v, fault |-> "none"]

ToOptional(n) == [some |-> n.valid, v |-> n.v]

\* Nullable.Scan calls n.Scan(src), itself, before it looks at sqlNull: every
\* call makes one more call until the runtime aborts on stack overflow.  The
\* statements after the call read sqlNull, which is still the zero value.
RECURSIVE Nullable_Scan(_, _, _)
Nullable_Scan(n, src, depth) ==
    IF depth >= MaxStackDepth
    THEN [recv |-> n, err |-> nil, fault |-> "stackoverflow"]
    ELSE LET r == Nullable_Scan(n, src, depth + 1) IN
         IF r.fault # "none" THEN r
         ELSE IF r.err # nil THEN [recv |-> r.recv, err |-> r.err, fault |-> "none"]
         ELSE [recv |-> [valid |-> FALSE, v |-> Zero], err |-> nil, fault |-> "none"]

\* Nullable declares no IsZero method: an omitzero field of type Nullable[T]
\* is omitted when the struct is the zero value of its type
Nullable_omitzero(n) == n.valid = FALSE /\ n.v = Zero

Nullable_MarshalJSON(t, n) ==
    IF ~n.valid
    THEN [out |-> nullStrBytes, err |-> nil, fault |-> "none", by |-> "none"]
    ELSE LET r == marshalJSON(t, n.v) IN
         [out |-> r.out, err |-> r.err, fault |-> "none", by |-> r.by]

Nullable_UnmarshalJSON(t, n, data) ==
    IF data = nullStrBytes
    THEN [recv |-> Null, err |-> nil, by |-> "none"]
    ELSE LET r == unmarshalJSON(t, data, n.v) IN
         [recv |-> [valid |-> (r.err = nil), v |-> r.v], err |-> r.err, by |-> r.by]

\* -------------------------------------------------------------- Optional2
Some2(inner) == [some |-> TRUE, v |-> inner]
None2 == [some |-> FALSE, v |-> None]

Optional2_UnmarshalJSON(t, o, data) ==
    LET r == Optional_UnmarshalJSON(t, o.v, data) IN
    [recv |-> [some |-> TRUE, v |-> r.recv], err |-> nil]

\* ------------------------------------------------------------------ state
\* res is what the last operation returned to its caller; encBy and decBy name
\* the delegate target that encoded and decoded in it.
RB(op, data, err, out, val, flag, fault, encBy, decBy) ==
    [op |-> op, data |-> data, err |-> err, out |-> out, val |-> val,
     flag |-> flag, fault |-> fault, encBy |-> encBy, decBy |-> decBy]

R(op, data, err, out, val, flag, fault) ==
    RB(op, data, err, out, val, flag, fault, "none", "none")

Init ==
    /\ T \in Types
    /\ opt = None
    /\ nul = Null
    /\ form = None2
    /\ res = R("init", NoBytes, nil, NoBytes, Zero, FALSE, "none")

\* A stack overflow is fatal to the process: nothing runs after it.
Running == res.fault # "stackoverflow"

DoSome(v) ==
    /\ Running
    /\ opt' = Some(v)
    /\ res' = R("Some", NoBytes, nil, NoBytes, v, FALSE, "none")
    /\ UNCHANGED <<T, nul, form>>

DoNone ==
    /\ Running
    /\ opt' = None
    /\ res' = R("None", NoBytes, nil, NoBytes, Zero, FALSE, "none")
    /\ UNCHANGED <<T, nul, form>>

DoValid(v) ==
    /\ Running
    /\ nul' = Valid(v)
    /\ res' = R("Valid", NoBytes, nil, NoBytes, v, FALSE, "none")
    /\ UNCHANGED <<T, opt, form>>

DoNull ==
    /\ Running
    /\ nul' = Null
    /\ res' = R("Null", NoBytes, nil, NoBytes, Zero, FALSE, "none")
    /\ UNCHANGED <<T, opt, form>>

DoOptionalGet ==
    /\ Running
    /\ LET r == Optional_Get(opt) IN
       res' = R("Optional.Get", NoBytes, nil, NoBytes, r.val, FALSE, r.fault)
    /\ UNCHANGED <<T, opt, nul, form>>

DoNullableGet ==
    /\ Running
    /\ LET r == Nullable_Get(nul) IN
       res' = R("Nullable.Get", NoBytes, nil, NoBytes, r.val, FALSE, r.fault)
    /\ UNCHANGED <<T, opt, nul, form>>

DoToNullable ==
    /\ Running
    /\ nul' = ToNullable(opt)
    /\ res' = R("ToNullable", NoBytes, nil, NoBytes, Zero, FALSE, "none")
    /\ UNCHANGED <<T, opt, form>>

DoToOptional ==
    /\ Running
    /\ opt' = ToOptional(nul)
    /\ res' = R("ToOptional", NoBytes, nil, NoBytes, Zero, FALSE, "none")
    /\ UNCHANGED <<T, nul, form>>

DoOptionalScan(src) ==
    /\ Running
    /\ LET r == Optional_Scan(opt, src) IN
       /\ opt' = r.recv
       /\ res' = R("Optional.Scan", src, r.err, NoBytes, Zero, FALSE, r.fault)
    /\ UNCHANGED <<T, nul, form>>

DoNullableScan(src) ==
    /\ Running
    /\ LET r == Nullable_Scan(nul, src, 0) IN
       /\ nul' = r.recv
       /\ res' = R("Nullable.Scan", src, r.err, NoBytes, Zero, FALSE, r.fault)
    /\ UNCHANGED <<T, opt, form>>

DoOptionalMarshalJSON ==
    /\ Running
    /\ LET r == Optional_MarshalJSON(T, opt) IN
       res' = RB("Optional.MarshalJSON", NoBytes, r.err, r.out, Zero, FALSE, r.fault,
                 r.by, "none")
    /\ UNCHANGED <<T, opt, nul, form>>

DoNullableMarshalJSON ==
    /\ Running
    /\ LET r == Nullable_MarshalJSON(T, nul) IN
       res' = RB("Nullable.MarshalJSON", NoBytes, r.err, r.out, Zero, FALSE, r.fault,
                 r.by, "none")
    /\ UNCHANGED <<T, opt, nul, form>>

DoOptionalUnmarshalJSON(data) ==
    /\ Running
    /\ LET r == Optional_UnmarshalJSON(T, opt, data) IN
       /\ opt' = r.recv
       /\ res' = RB("Optional.UnmarshalJSON", data, r.err, NoBytes, Zero, FALSE, "none",
                    "none", r.by)
    /\ UNCHANGED <<T, nul, form>>

DoNullableUnmarshalJSON(data) ==
    /\ Running
    /\ LET r == Nullable_UnmarshalJSON(T, nul, data) IN
       /\ nul' = r.recv
       /\ res' = RB("Nullable.UnmarshalJSON", data, r.err, NoBytes, Zero, FALSE, "none",
                    "none", r.by)
    /\ UNCHANGED <<T, opt, form>>

\* b, err := Some(v).MarshalJSON(); var o Optional[T]; err = o.UnmarshalJSON(b)
DoOptionalRoundTrip(v) ==
    /\ Running
    /\ LET e == Optional_MarshalJSON(T, Some(v)) IN
       /\ e.fault = "none" /\ e.err = nil
       /\ LET d == Optional_UnmarshalJSON(T, None, e.out) IN
          /\ opt' = d.recv
          /\ res' = RB("Optional.RoundTrip", e.out, d.err, e.out, v, FALSE, "none",
                       e.by, d.by)
    /\ UNCHANGED <<T, nul, form>>

\* b, err := Valid(v).MarshalJSON(); var n Nullable[T]; err = n.UnmarshalJSON(b)
DoNullableRoundTrip(v) ==
    /\ Running
    /\ LET e == Nullable_MarshalJSON(T, Valid(v)) IN
       /\ e.fault = "none" /\ e.err = nil
       /\ LET d == Nullable_UnmarshalJSON(T, Null, e.out) IN
          /\ nul' = d.recv
          /\ res' = RB("Nullable.RoundTrip", e.out, d.err, e.out, v, FALSE, "none",
                       e.by, d.by)
    /\ UNCHANGED <<T, opt, form>>

\* opt == other, for another Optional[T] built by the package's own operations;
\* res.flag and res.val keep other's fields, res.out says whether == held
DoOptionalCompare(other) ==
    /\ Running
    /\ res' = R("Optional.==", NoBytes, nil,
                IF Optional_Eq(opt, other) THEN B("eq", Zero) ELSE B("ne", Zero),
                other.v, other.some, "none")
    /\ UNCHANGED <<T, opt, nul, form>>

\* json.Marshal of a struct with one field of type Optional[T], tagged
\* `json:",omitzero"` or not: what is written for the field
DoEncodeOptionalField(omitzero) ==
    /\ Running
    /\ IF omitzero /\ Optional_IsZero(opt)
       THEN res' = R("EncodeField Optional", NoBytes, nil, Omitted, Zero, omitzero, "none")
       ELSE LET r == Optional_MarshalJSON(T, opt) IN
            res' = R("EncodeField Optional", NoBytes, r.err, r.out, Zero, omitzero, r.fault)
    /\ UNCHANGED <<T, opt, nul, form>>

DoEncodeNullableField(omitzero) ==
    /\ Running
    /\ IF omitzero /\ Nullable_omitzero(nul)
       THEN res' = R("EncodeField Nullable", NoBytes, nil, Omitted, Zero, omitzero, "none")
       ELSE LET r == Nullable_MarshalJSON(T, nul) IN
            res' = R("EncodeField Nullable", NoBytes, r.err, r.out, Zero, omitzero, r.fault)
    /\ UNCHANGED <<T, opt, nul, form>>

\* var form struct{ F Optional2[T] }; json.Unmarshal(input, &form), where the
\* input object either has no member F (Missing) or has one with these bytes.
\* An input that is not JSON at all is refused before any field is touched.
DoDecodeForm(data) ==
    /\ Running
    /\ IF data = Missing
       THEN /\ form' = None2
            /\ res' = R("DecodeForm", data, nil, NoBytes, Zero, FALSE, "none")
       ELSE IF data = Bad
       THEN /\ form' = None2
            /\ res' = R("DecodeForm", data, errStruct, NoBytes, Zero, FALSE, "none")
       ELSE LET r == Optional2_UnmarshalJSON(T, None2, data) IN
            /\ form' = r.recv
            /\ res' = R("DecodeForm", data, r.err, NoBytes, Zero, FALSE, "none")
    /\ UNCHANGED <<T, opt, nul>>

Next ==
    \/ \E v \in Vals : DoSome(v)
    \/ DoNone
    \/ \E v \in Vals : DoValid(v)
    \/ DoNull
    \/ DoOptionalGet
    \/ DoNullableGet
    \/ DoToNullable
    \/ DoToOptional
    \/ \E src \in Srcs : DoOptionalScan(src)
    \/ \E src \in Srcs : DoNullableScan(src)
    \/ DoOptionalMarshalJSON
    \/ DoNullableMarshalJSON
    \/ \E data \in Bytes : DoOptionalUnmarshalJSON(data)
    \/ \E data \in Bytes : DoNullableUnmarshalJSON(data)
    \/ \E v \in Vals : DoOptionalRoundTrip(v)
    \/ \E v \in Vals : DoNullableRoundTrip(v)
    \/ \E other \in {None, ToOptional(nul)} \cup {Some(x) : x \in Vals} :
          DoOptionalCompare(other)
    \/ \E omitzero \in BOOLEAN : DoEncodeOptionalField(omitzero)
    \/ \E omitzero \in BOOLEAN : DoEncodeNullableField(omitzero)

Spec == Init /\ [][Next]_vars

\* Decoding into a form touches no Optional or Nullable outside the form: it
\* is explored on its own.
NextForm ==
    \E data \in Bytes \cup {Missing} : DoDecodeForm(data)

SpecForm == Init /\ [][NextForm]_vars

\* ------------------------------------------------------------------ claims
\* The order of the delegate as the specification states it: the custom JSON
\* hook if the type has one, else the text hook if it has one, else the
\* structural default.
FirstEncoder(t) == IF t.mj THEN "json" ELSE IF t.mt THEN "text" ELSE "struct"
FirstDecoder(t) == IF t.uj THEN "json" ELSE IF t.ut THEN "text" ELSE "struct"

EncodeBy(tier, t, v) ==
    CASE tier = "json" -> T_MarshalJSON(t, v)
      [] tier = "text" -> T_MarshalText(t, v)
      [] OTHER -> json_Marshal(t, v)

DecodeBy(tier, t, data, cur) ==
    CASE tier = "json" -> T_UnmarshalJSON(t, data, cur)
      [] tier = "text" -> T_UnmarshalText(t, data, cur)
      [] OTHER -> json_Unmarshal(t, data, cur)

\* T's own encode/decode round-trips v: T's first encoder encodes v and T's
\* first decoder reads these bytes back as v.
OwnRoundTrips(t, v) ==
    LET e == EncodeBy(FirstEncoder(t), t, v) IN
    /\ e.err = nil
    /\ LET d == DecodeBy(FirstDecoder(t), t, e.out, Zero) IN
       d.err = nil /\ d.v = v

\* T has each hook in both directions or in neither.
Paired(t) == (t.mj <=> t.uj) /\ (t.mt <=> t.ut)

EncodedNull == res.fault = "none" /\ res.err = nil /\ res.out = nullStrBytes

\* C1: encoding an absent value returns exactly the literal null, with no
\* error and no panic: Optional.MarshalJSON on None, Nullable.MarshalJSON on
\* Null, and an absent Optional struct field that is not tagged omitzero.
C1_AbsentEncodesNull ==
    /\ (res.op = "Optional.MarshalJSON" /\ IsNone(opt)) => EncodedNull
    /\ (res.op = "Nullable.MarshalJSON" /\ IsNull(nul)) => EncodedNull
    /\ (res.op = "EncodeField Optional" /\ ~res.flag /\ IsNone(opt)) => EncodedNull

\* C2: after UnmarshalJSON("null") the receiver is absent whatever it held
\* before: an Optional equals None, a Nullable equals Null, and the call
\* returned no error.
C2_NullDecodesAbsent ==
    /\ (res.op = "Optional.UnmarshalJSON" /\ res.data = nullStrBytes)
          => (res.err = nil /\ Optional_Eq(opt, None))
    /\ (res.op = "Nullable.UnmarshalJSON" /\ res.data = nullStrBytes)
          => (res.err = nil /\ nul = Null)

\* C3: when decoding a non-null input fails in the underlying hook or decoder,
\* UnmarshalJSON returns that error, and the receiver is present after the
\* call exactly when the call returned no error.
C3_DecodeErrorReturned ==
    /\ (res.op = "Optional.UnmarshalJSON" /\ res.data # nullStrBytes)
          => /\ res.err = DecodeBy(res.decBy, T, res.data, Zero).err
             /\ IsSome(opt) <=> res.err = nil
    /\ (res.op = "Nullable.UnmarshalJSON" /\ res.data # nullStrBytes)
          => /\ res.err = DecodeBy(res.decBy, T, res.data, Zero).err
             /\ IsValid(nul) <=> res.err = nil

\* C4 (as claimed): for every T and v that T's own encode/decode round-trips,
\* Some(v) encoded and decoded into a fresh Optional is Some(v), and Valid(v)
\* encoded and decoded into a fresh Nullable is Valid(v).
C4_RoundTripAsClaimed ==
    /\ (res.op = "Optional.RoundTrip" /\ OwnRoundTrips(T, res.val))
          => (res.err = nil /\ IsSome(opt) /\ Optional_Eq(opt, Some(res.val)))
    /\ (res.op = "Nullable.RoundTrip" /\ OwnRoundTrips(T, res.val))
          => (res.err = nil /\ IsValid(nul) /\ nul = Valid(res.val))

\* C4 (amended): the same, except that for Nullable the encoding of v must not
\* be the literal null: a Valid(v) whose value encodes as null decodes to Null.
C4_RoundTrip ==
    /\ (res.op = "Optional.RoundTrip" /\ OwnRoundTrips(T, res.val))
          => (res.err = nil /\ IsSome(opt) /\ Optional_Eq(opt, Some(res.val)))
    /\ (res.op = "Nullable.RoundTrip" /\ OwnRoundTrips(T, res.val)
           /\ res.out # nullStrBytes)
          => (res.err = nil /\ IsValid(nul) /\ nul = Valid(res.val))

\* A non-zero value went through the text hooks and came back in a fresh Optional.
C4_Witness ==
    /\ res.op = "Optional.RoundTrip"
    /\ OwnRoundTrips(T, res.val)
    /\ res.encBy = "text" /\ res.decBy = "text"
    /\ res.val # Zero
    /\ opt = Some(res.val)

\* C5: IsSome and IsNone are complementary, Get on a present instance returns
\* the stored value without fault, Get on an absent instance panics and
\* returns no value; likewise Nullable's IsValid, IsNull and Get.
C5_PresenceAndGet ==
    /\ IsSome(opt) <=> ~IsNone(opt)
    /\ IsValid(nul) <=> ~IsNull(nul)
    /\ res.op = "Some" => (IsSome(opt) /\ opt.v = res.val)
    /\ res.op = "None" => IsNone(opt)
    /\ res.op = "Valid" => (IsValid(nul) /\ nul.v = res.val)
    /\ res.op = "Null" => IsNull(nul)
    /\ res.op = "Optional.Get" =>
          IF opt.some THEN res.fault = "none" /\ res.val = opt.v
          ELSE res.fault = "panic"
    /\ res.op = "Nullable.Get" =>
          IF nul.valid THEN res.fault = "none" /\ res.val = nul.v
          ELSE res.fault = "panic"

\* Get panicked on an Optional that a failed decode left absent with a value
\* still stored in it.
C5_Witness ==
    /\ res.op = "Optional.Get"
    /\ res.fault = "panic"
    /\ IsNone(opt) /\ opt.v # Zero

\* C6: two Optional[T], however produced, compare equal exactly when both are
\* absent or both are present with equal value; every absent instance equals
\* None.
C6_EqualityByPresence ==
    /\ res.op = "Optional.==" =>
          ((res.out = B("eq", Zero)) <=>
              \/ ~opt.some /\ ~res.flag
              \/ opt.some /\ res.flag /\ opt.v = res.val)
    /\ IsNone(opt) => Optional_Eq(opt, None)

\* C7: decoding a form with an Optional2 field: a value v gives Some2(Some(v)),
\* the literal null gives Some2(None), a missing field stays None2.
C7_TriState ==
    res.op = "DecodeForm" =>
       /\ res.data = Missing => form = None2
       /\ res.data = nullStrBytes => form = Some2(None)
       /\ (res.data \notin {Missing, nullStrBytes}
              /\ DecodeBy(FirstDecoder(T), T, res.data, Zero).err = nil)
             => form = Some2(Some(DecodeBy(FirstDecoder(T), T, res.data, Zero).v))

\* C8: Scan returns for every src: with the receiver absent for the storage
\* NULL, present with the converted value for a convertible src, and with the
\* conversion error for a src that is not convertible; for both wrappers.
C8_ScanReturns ==
    /\ res.op = "Optional.Scan" =>
          /\ res.fault = "none"
          /\ res.data = SrcNil => (res.err = nil /\ IsNone(opt))
          /\ res.data.fmt = "sqlval" => (res.err = nil /\ opt = Some(res.data.val))
          /\ res.data = SrcBad => res.err = errConvert
    /\ res.op = "Nullable.Scan" =>
          /\ res.fault = "none"
          /\ res.data = SrcNil => (res.err = nil /\ IsNull(nul))
          /\ res.data.fmt = "sqlval" => (res.err = nil /\ nul = Valid(res.data.val))
          /\ res.data = SrcBad => res.err = errConvert

\* C9: a field tagged omitzero is omitted exactly when the instance in it is
\* absent, and written when it is present, for Optional and for Nullable.
C9_OmittedIffAbsent ==
    /\ (res.op = "EncodeField Optional" /\ res.flag)
          => ((res.out = Omitted) <=> IsNone(opt))
    /\ (res.op = "EncodeField Nullable" /\ res.flag)
          => ((res.out = Omitted) <=> IsNull(nul))

\* The delegate ran the first target of the stated order and handed back that
\* target's bytes and error unchanged: on encode (seen through MarshalJSON of a
\* present wrapper) and on decode (seen through UnmarshalJSON).
C10_OrderAndErrors ==
    /\ (res.op = "Optional.MarshalJSON" /\ IsSome(opt)) =>
          /\ res.encBy = FirstEncoder(T)
          /\ res.out = EncodeBy(FirstEncoder(T), T, opt.v).out
          /\ res.err = EncodeBy(FirstEncoder(T), T, opt.v).err
    /\ (res.op = "Nullable.MarshalJSON" /\ IsValid(nul)) =>
          /\ res.encBy = FirstEncoder(T)
          /\ res.out = EncodeBy(FirstEncoder(T), T, nul.v).out
          /\ res.err = EncodeBy(FirstEncoder(T), T, nul.v).err
    /\ res.op = "Optional.UnmarshalJSON" => res.decBy = FirstDecoder(T)
    /\ (res.op = "Nullable.UnmarshalJSON" /\ res.data # nullStrBytes) =>
          /\ res.decBy = FirstDecoder(T)
          /\ res.err = DecodeBy(FirstDecoder(T), T, res.data, Zero).err

RoundTripRanDelegate ==
    /\ res.op \in {"Optional.RoundTrip", "Nullable.RoundTrip"}
    /\ res.decBy # "none"

\* C10 (as claimed): the delegate resolves JSON hook, then text hook, then
\* structural default, on encode and on decode, returns the selected target's
\* error unchanged, and for the same T selects the same tier in both directions.
C10_DelegateAsClaimed ==
    /\ C10_OrderAndErrors
    /\ RoundTripRanDelegate => res.encBy = res.decBy

\* C10 (amended): the same order and errors; encode and decode select the same
\* tier for a T that has each hook in both directions or in neither.
C10_Delegate ==
    /\ C10_OrderAndErrors
    /\ (RoundTripRanDelegate /\ Paired(T)) => res.encBy = res.decBy

\* A type with both the JSON and the text hooks went through the JSON hooks
\* in both directions.
C10_Witness ==
    /\ res.op = "Nullable.RoundTrip"
    /\ T.mj /\ T.mt /\ T.uj /\ T.ut
    /\ res.encBy = "json" /\ res.decBy = "json"
    /\ nul = Valid(res.val)

====
